---- MODULE Spec2Model ----
(***************************************************************************)
(* Fan-out command execution and reporting of gcr-cli.                     *)
(*                                                                         *)
(* Three entry points are modelled: `run` and `check` of gcr_cli/gcr.py    *)
(* and the older `run` of hh.py (cmd = "hh_run").  One invocation is one   *)
(* behaviour: Init fixes the command line and the content of the working   *)
(* directory, the Start actions resolve the directories and normalise the  *)
(* command, and the loop is split at the two points where the program      *)
(* blocks: waiting for the child process to exit, and the operator prompt. *)
(*                                                                         *)
(* Names are tuples of one-character strings, so that prefixes and glob    *)
(* patterns are computed character by character.  Elapsed times are whole  *)
(* seconds; figures printed with "{:.2f}" are hundredths of a second.      *)
(* The bytes a child writes are not modelled: panels are identified by     *)
(* the target they are printed for.                                        *)
(***************************************************************************)
EXTENDS Integers, Sequences, FiniteSets, TLC

\* Bounds of the model.
MaxDirs == 3
MaxElapsed == 3
MaxTokens == 3

VARIABLES
    cmd,              \* entry point: "run", "check" (gcr.py) or "hh_run" (hh.py)
    fs,               \* names of the immediate children of the working root
    assignment_name,  \* command-line argument
    student_name,     \* command-line argument, NoStudent when omitted
    command,          \* the command string, split into tokens
    errors_only,      \* --errors-only
    success_only,     \* --success-only
    wait,             \* --wait
    pc,               \* position of the handler
    error,            \* exception that ended the handler, "none" otherwise
    dirs,             \* resolved directories, in iteration order
    argv,             \* tokens handed to subprocess.run
    capture_output,   \* local capture_output of run
    idx,              \* 1-based position of the loop in dirs
    results,          \* one record per completed subprocess.run
    events,           \* what happened, in order: <<kind, position in dirs>>
    total_passing,    \* check: counter
    total_failing,    \* check: counter
    times,            \* check: list of elapsed times
    table,            \* check: rows added to the rich Table
    progress,         \* check: items the track() progress bar has handed out
    report            \* check: what print(table) and print(Panel.fit(grid)) showed

inputs == <<cmd, fs, assignment_name, student_name, command,
            errors_only, success_only, wait>>
locals == <<pc, error, dirs, argv, capture_output, idx, results, events,
            total_passing, total_failing, times, table, progress, report>>
vars == <<inputs, locals>>

----------------------------------------------------------------------------
\* The file system and the programs on PATH.

H1 == <<"h", "1">>
H10 == <<"h", "1", "0">>
HQ == <<"h", "?">>
NoStudent == <<>>

\* Every name a child of the working root may have in the model.
Children ==
    { <<"h", "1", "-", "a">>, <<"h", "1", "-", "b">>,
      <<"h", "1", "-", "c">>, <<"h", "1", "0", "-", "c">>,
      <<"h", "2", "-", "a">>, <<"h", "1", "-", "z">> }

\* Children that are regular files, not directories.
RegularFiles == { <<"h", "1", "-", "z">> }

\* Programs that can be found on PATH.
Installed == {"git", "pytest", "ls"}

ExitCodes == {0, 1}
Elapsed == 1..MaxElapsed

NoReport == <<>>

----------------------------------------------------------------------------
\* Directory resolution.

\* fnmatch of one path component, as Path.glob applies it: "*" matches any
\* run of characters, "?" any one character, anything else itself.
RECURSIVE GlobMatch(_, _)
GlobMatch(pat, name) ==
    IF pat = <<>> THEN name = <<>>
    ELSE IF Head(pat) = "*"
         THEN GlobMatch(Tail(pat), name)
              \/ (name # <<>> /\ GlobMatch(pat, Tail(name)))
    ELSE /\ name # <<>>
         /\ (Head(pat) = "?" \/ Head(pat) = Head(name))
         /\ GlobMatch(Tail(pat), Tail(name))

\* The lists that enumerate S once each: glob yields in directory order,
\* which nothing fixes.
Orderings(S) ==
    { s \in [1..Cardinality(S) -> S] :
        \A i, j \in 1..Cardinality(S) : i # j => s[i] # s[j] }

\* The lists _get_local_dirs may return.
get_local_dirs(assignment, student) ==
    IF student = NoStudent
    THEN Orderings({ c \in fs : GlobMatch(assignment \o <<"-", "*">>, c) })
    ELSE { << assignment \o <<"-">> \o student >> }

----------------------------------------------------------------------------
\* Command normalisation.

GitColorFlags ==
    <<"-c", "color.ui=always", "-c", "color.diff=always",
      "-c", "color.status=always">>

known_commands == [p \in {"pytest"} |-> "--color=yes"]

\* Faulty variant of force_color: the colour tokens are put after the
\* caller's tokens instead of right after the program name.
force_color_appending(c) ==
    IF c[1] = "git"
    THEN c \o GitColorFlags
    ELSE IF c[1] \in DOMAIN known_commands
         THEN c \o <<known_commands[c[1]]>>
    ELSE c

force_color(c) ==
    IF c[1] = "git"
    THEN SubSeq(c, 1, 1) \o GitColorFlags \o SubSeq(c, 2, Len(c))
    ELSE IF c[1] \in DOMAIN known_commands
         THEN c \o <<known_commands[c[1]]>>
    ELSE c

\* capture_output of run: constant in gcr.py, derived from the flags in hh.py.
CaptureOutput(entry) ==
    IF entry = "run" THEN TRUE ELSE errors_only \/ success_only

\* The tokens run hands to subprocess.run.
Normalized(c, capture) == IF capture THEN force_color(c) ELSE c

----------------------------------------------------------------------------
\* subprocess.run.

\* The exception subprocess.run raises instead of returning a result.
SpawnError(dir, tokens) ==
    IF dir \notin fs THEN "FileNotFoundError"
    ELSE IF dir \in RegularFiles THEN "NotADirectoryError"
    ELSE IF tokens[1] \notin Installed THEN "FileNotFoundError"
    ELSE "none"

\* Faulty variant of MoreTargets: the loop is left after its first target.
MoreTargetsFirstOnly(i) == FALSE

\* Whether the for loop has another target after position i.
MoreTargets(i) == i < Len(dirs)

----------------------------------------------------------------------------
\* Reporting of run.

\* Faulty variant of Included: without a flag nothing is shown.
IncludedWithoutDefault(rc) ==
    \/ (errors_only /\ rc # 0)
    \/ (success_only /\ rc = 0)

\* The condition under which gcr.py's run prints the panel of a result.
Included(rc) ==
    \/ (errors_only /\ rc # 0)
    \/ (success_only /\ rc = 0)
    \/ (~success_only /\ ~errors_only)

\* The condition under which hh.py's run prints the output of a result.
HHIncluded(rc) ==
    \/ (errors_only /\ rc # 0)
    \/ (success_only /\ rc = 0)

\* Faulty variant of Prompts: the prompt is outside the if that prints.
PromptsAlways(included) == wait

\* Whether run blocks in typer.prompt after a result.
Prompts(included) == included /\ wait

----------------------------------------------------------------------------
\* Reporting of check.

RECURSIVE PySum(_)
PySum(s) == IF s = <<>> THEN 0 ELSE Head(s) + PySum(Tail(s))

\* Faulty variant of PyMin: the first element.
PyMinFirst(s) == s[1]

RECURSIVE PyMin(_)
PyMin(s) ==
    IF Len(s) = 1 THEN s[1]
    ELSE LET m == PyMin(Tail(s)) IN IF Head(s) <= m THEN Head(s) ELSE m

RECURSIVE PyMax(_)
PyMax(s) ==
    IF Len(s) = 1 THEN s[1]
    ELSE LET m == PyMax(Tail(s)) IN IF Head(s) >= m THEN Head(s) ELSE m

\* "{:.2f}".format(num / den), in hundredths: correctly rounded, ties to even.
Fmt2(num, den) ==
    LET q == (100 * num) \div den
        r == (100 * num) % den
    IN  IF 2 * r < den THEN q
        ELSE IF 2 * r > den THEN q + 1
        ELSE IF q % 2 = 0 THEN q ELSE q + 1

\* The row check adds to the table for one result.
Row(dir, success, elapsed_time) ==
    [student |-> dir, green |-> success, mark |-> success,
     time |-> Fmt2(elapsed_time, 1)]

\* The grid and the two prints that follow the loop.  min() of an empty list
\* raises ValueError before anything is printed.
Summary(tp, tf, tms, tbl) ==
    IF tms = <<>>
    THEN [pc |-> "raised", error |-> "ValueError", report |-> NoReport]
    ELSE [pc |-> "done", error |-> "none",
          report |-> [table |-> tbl,
                      command |-> command,
                      total_passing |-> tp,
                      total_failing |-> tf,
                      min |-> Fmt2(PyMin(tms), 1),
                      max |-> Fmt2(PyMax(tms), 1),
                      avg |-> Fmt2(PySum(tms), Len(tms))]]

\* Faulty variant of CheckReport: the prints are inside the loop.
CheckReportStreaming(i, tp, tf, tms, tbl) ==
    [pc |-> IF MoreTargets(i) THEN "loop" ELSE "done", error |-> "none",
     report |-> Summary(tp, tf, tms, tbl).report]

\* What check has printed once the iteration at position i is over.
CheckReport(i, tp, tf, tms, tbl) ==
    IF MoreTargets(i)
    THEN [pc |-> "loop", error |-> "none", report |-> NoReport]
    ELSE Summary(tp, tf, tms, tbl)

----------------------------------------------------------------------------
\* Initial states: the command line and the working directory.

FileSystems == { S \in SUBSET Children : Cardinality(S) <= MaxDirs }

TypeInputs(Entries, Systems, Assignments, Students, Commands) ==
    /\ cmd \in Entries
    /\ fs \in Systems
    /\ assignment_name \in Assignments
    /\ student_name \in Students
    /\ command \in Commands
    /\ errors_only \in BOOLEAN
    /\ success_only \in BOOLEAN
    /\ wait \in BOOLEAN
    \* check takes no student and no flags, hh.py's run no --wait
    /\ cmd = "check" => /\ student_name = NoStudent
                        /\ ~errors_only /\ ~success_only /\ ~wait
    /\ cmd = "hh_run" => ~wait

InitLocals ==
    /\ pc = "start"
    /\ error = "none"
    /\ dirs = <<>>
    /\ argv = <<>>
    /\ capture_output = FALSE
    /\ idx = 0
    /\ results = <<>>
    /\ events = <<>>
    /\ total_passing = 0
    /\ total_failing = 0
    /\ times = <<>>
    /\ table = <<>>
    /\ progress = 0
    /\ report = NoReport

Entries == {"run", "check", "hh_run"}
Students == {NoStudent, <<"a">>, <<"c">>}
Commands == { <<"git", "status">>, <<"ls">>, <<"nope">> }

Init ==
    /\ TypeInputs(Entries, FileSystems, {H1, H10, HQ}, Students, Commands)
    /\ InitLocals

\* Initial states for the claims about normalisation: every token list up
\* to MaxTokens over Tokens, in one working directory.
Tokens == {"git", "pytest", "ls", "status"}
TokenLists == UNION { [1..n -> Tokens] : n \in 1..MaxTokens }
TwoStudents == { <<"h", "1", "-", "a">>, <<"h", "1", "-", "b">> }

InitNormalize ==
    /\ TypeInputs(Entries, {TwoStudents}, {H1}, {NoStudent, <<"a">>}, TokenLists)
    /\ InitLocals

----------------------------------------------------------------------------
\* run (gcr.py and hh.py).

\* Lines up to the loop: resolve the directories, split and normalise the
\* command.  An empty list of directories ends the handler at once.
RunStart ==
    /\ pc = "start"
    /\ cmd \in {"run", "hh_run"}
    /\ \E d \in get_local_dirs(assignment_name, student_name) :
          /\ dirs' = d
          /\ pc' = IF d = <<>> THEN "done" ELSE "loop"
          /\ idx' = IF d = <<>> THEN 0 ELSE 1
    /\ capture_output' = CaptureOutput(cmd)
    /\ argv' = Normalized(command, CaptureOutput(cmd))
    /\ UNCHANGED <<inputs, error, results, events, total_passing,
                   total_failing, times, table, progress, report>>

\* subprocess.run starts the child in dirs[idx], or raises.
RunSpawn ==
    /\ pc = "loop"
    /\ cmd \in {"run", "hh_run"}
    /\ LET e == SpawnError(dirs[idx], argv)
           announce == IF capture_output THEN <<>> ELSE << <<"announce", idx>> >>
       IN  IF e = "none"
           THEN /\ pc' = "running"
                /\ events' = events \o announce \o << <<"exec", idx>> >>
                /\ error' = error
           ELSE /\ pc' = "raised"
                /\ events' = events \o announce
                /\ error' = e
    /\ UNCHANGED <<inputs, dirs, argv, capture_output, idx, results,
                   total_passing, total_failing, times, table, progress,
                   report>>

\* The child exits with rc; the result is filtered and printed, and run
\* either blocks in the prompt or goes on to the next target.
RunExit ==
    /\ pc = "running"
    /\ cmd \in {"run", "hh_run"}
    /\ \E rc \in ExitCodes :
          LET inc == IF cmd = "run" THEN Included(rc) ELSE HHIncluded(rc)
              ask == cmd = "run" /\ Prompts(inc)
          IN  /\ results' = Append(results,
                    [name |-> dirs[idx], returncode |-> rc, elapsed |-> 0])
              /\ events' = events \o << <<"exit", idx>> >>
                    \o (IF inc THEN << <<"panel", idx>> >> ELSE <<>>)
                    \o (IF ask THEN << <<"prompt", idx>> >> ELSE <<>>)
              /\ IF ask
                 THEN pc' = "prompt" /\ idx' = idx
                 ELSE IF MoreTargets(idx)
                      THEN pc' = "loop" /\ idx' = idx + 1
                      ELSE pc' = "done" /\ idx' = idx
    /\ UNCHANGED <<inputs, error, dirs, argv, capture_output, total_passing,
                   total_failing, times, table, progress, report>>

\* The operator answers the prompt.
RunAck ==
    /\ pc = "prompt"
    /\ events' = Append(events, <<"ack", idx>>)
    /\ IF MoreTargets(idx)
       THEN pc' = "loop" /\ idx' = idx + 1
       ELSE pc' = "done" /\ idx' = idx
    /\ UNCHANGED <<inputs, error, dirs, argv, capture_output, results,
                   total_passing, total_failing, times, table, progress,
                   report>>

----------------------------------------------------------------------------
\* check (gcr.py).

\* Lines up to the loop.  With no directory the loop body never runs and
\* the handler goes straight to the grid.
CheckStart ==
    /\ pc = "start"
    /\ cmd = "check"
    /\ \E d \in get_local_dirs(assignment_name, NoStudent) :
          /\ dirs' = d
          /\ IF d = <<>>
             THEN LET s == Summary(total_passing, total_failing, times, table)
                  IN  /\ pc' = s.pc
                      /\ error' = s.error
                      /\ report' = s.report
                      /\ idx' = 0
             ELSE /\ pc' = "loop"
                  /\ error' = error
                  /\ report' = report
                  /\ idx' = 1
    /\ argv' = command
    /\ capture_output' = TRUE
    /\ UNCHANGED <<inputs, results, events, total_passing, total_failing,
                   times, table, progress>>

\* track() hands out dirs[idx]; subprocess.run starts the child or raises.
CheckSpawn ==
    /\ pc = "loop"
    /\ cmd = "check"
    /\ progress' = idx
    /\ LET e == SpawnError(dirs[idx], argv)
       IN  IF e = "none"
           THEN /\ pc' = "running"
                /\ events' = Append(events, <<"exec", idx>>)
                /\ error' = error
           ELSE /\ pc' = "raised"
                /\ events' = events
                /\ error' = e
    /\ UNCHANGED <<inputs, dirs, argv, capture_output, idx, results,
                   total_passing, total_failing, times, table, report>>

\* The child exits: counters, times and the table row; after the last
\* target the grid is built and both are printed.
CheckExit ==
    /\ pc = "running"
    /\ cmd = "check"
    /\ \E rc \in ExitCodes, elapsed_time \in Elapsed :
          LET success == rc = 0
              tp == IF success THEN total_passing + 1 ELSE total_passing
              tf == IF success THEN total_failing ELSE total_failing + 1
              tms == Append(times, elapsed_time)
              tbl == Append(table, Row(dirs[idx], success, elapsed_time))
              s == CheckReport(idx, tp, tf, tms, tbl)
          IN  /\ results' = Append(results,
                    [name |-> dirs[idx], returncode |-> rc,
                     elapsed |-> elapsed_time])
              /\ events' = Append(events, <<"exit", idx>>)
              /\ total_passing' = tp
              /\ total_failing' = tf
              /\ times' = tms
              /\ table' = tbl
              /\ pc' = s.pc
              /\ error' = s.error
              /\ report' = s.report
              /\ idx' = IF s.pc = "loop" THEN idx + 1 ELSE idx
    /\ UNCHANGED <<inputs, dirs, argv, capture_output, progress>>

----------------------------------------------------------------------------
Next ==
    \/ RunStart
    \/ RunSpawn
    \/ RunExit
    \/ RunAck
    \/ CheckStart
    \/ CheckSpawn
    \/ CheckExit

Spec == Init /\ [][Next]_vars

SpecNormalize == InitNormalize /\ [][Next]_vars

----------------------------------------------------------------------------
\* Vocabulary of the properties.

Range(s) == { s[k] : k \in DOMAIN s }

IsPrefix(p, s) == Len(p) <= Len(s) /\ SubSeq(s, 1, Len(p)) = p

Happened(kind, k) == \E j \in DOMAIN events : events[j] = <<kind, k>>

Times(kind, k) == Cardinality({ j \in DOMAIN events : events[j] = <<kind, k>> })

\* The positions in dirs for which a child was started, in order of starting.
Started == [ j \in DOMAIN SelectSeq(events, LAMBDA e : e[1] = "exec") |->
               SelectSeq(events, LAMBDA e : e[1] = "exec")[j][2] ]

\* dirs[k] is an existing directory and the program is on PATH.
Runnable(k) == dirs[k] \in fs \ RegularFiles /\ argv[1] \in Installed

Resolved == pc # "start"

RECURSIVE ElapsedTotal(_)
ElapsedTotal(k) == IF k = 0 THEN 0 ELSE results[k].elapsed + ElapsedTotal(k - 1)

Abs(x) == IF x < 0 THEN -x ELSE x

----------------------------------------------------------------------------
\* C1: when every resolved directory exists and the program can be started,
\* the loops of run and check start the command exactly once per target, in
\* the resolved order, never end with an exception, and end with one result
\* per target that carries the status that target exited with; a non-zero
\* status does not keep the later targets from running.
C1_OneResultPerTarget ==
    (Resolved /\ dirs # <<>> /\ \A k \in DOMAIN dirs : Runnable(k)) =>
        /\ pc # "raised"
        /\ Len(results) <= Len(dirs)
        /\ \A k \in DOMAIN results : results[k].name = dirs[k]
        /\ \A k \in DOMAIN Started : Started[k] = k
        /\ Len(results) <= Len(Started) /\ Len(Started) <= Len(results) + 1
        /\ cmd = "check" =>
              /\ Len(table) = Len(results)
              /\ \A k \in DOMAIN table :
                    /\ table[k].student = dirs[k]
                    /\ table[k].mark = (results[k].returncode = 0)
        /\ pc = "done" =>
              /\ Len(results) = Len(dirs)
              /\ Len(Started) = Len(dirs)

\* Three targets have run and exited [fail, pass, fail].
C1_Witness ==
    /\ pc = "done"
    /\ Len(dirs) = 3
    /\ \A k \in DOMAIN dirs : Runnable(k)
    /\ Len(results) = 3
    /\ results[1].returncode # 0
    /\ results[2].returncode = 0
    /\ results[3].returncode # 0

\* C2: a target directory that does not exist, or a program that cannot be
\* found, is never an exception that ends run or check.
C2_SpawnFailureIsAResult ==
    cmd \in {"run", "check"} =>
        ~(pc = "raised" /\ error \in {"FileNotFoundError", "NotADirectoryError"})

\* C3: with errors_only and success_only both set, run starts no child and
\* prints no panel.
C3_ConflictRejectedBeforeExecution ==
    (cmd \in {"run", "hh_run"} /\ errors_only /\ success_only) =>
        \A j \in DOMAIN events : events[j][1] \notin {"exec", "panel"}

\* C4: with no directory resolved, check ends without an exception and
\* reports Total Passing = 0 and Total Failing = 0.
C4_EmptyCheckReports ==
    (cmd = "check" /\ Resolved /\ dirs = <<>>) =>
        /\ pc = "done"
        /\ error = "none"
        /\ report # NoReport
        /\ report.total_passing = 0
        /\ report.total_failing = 0

\* C5: in gcr.py's run with at most one of the two flags set, the panel of a
\* result is printed exactly when no flag is set, or errors_only is set and
\* the status is non-zero, or success_only is set and the status is zero;
\* nothing (no panel, no prompt) is printed for a result that is left out.
C5_PanelIffIncluded ==
    (cmd = "run" /\ ~(errors_only /\ success_only)) =>
        \A k \in DOMAIN results :
            LET rc == results[k].returncode
                shown == CASE errors_only -> rc # 0
                           [] success_only -> rc = 0
                           [] OTHER -> TRUE
            IN  /\ Times("panel", k) = (IF shown THEN 1 ELSE 0)
                /\ ~shown => ~Happened("prompt", k)

\* errors_only: a passing target was left out and a failing one was shown.
C5_Witness ==
    /\ cmd = "run" /\ errors_only /\ ~success_only
    /\ pc = "done"
    /\ \E j, k \in DOMAIN results :
          /\ results[j].returncode = 0 /\ ~Happened("panel", j)
          /\ results[k].returncode # 0 /\ Happened("panel", k)

\* C6: after check has run over a non-empty batch, Total Passing is the
\* number of zero statuses, Total Failing the number of non-zero statuses,
\* and Min, Max and Average Time are the least, the greatest and the mean of
\* the elapsed times to two decimals, with min <= mean <= max.
C6_Statistics ==
    (cmd = "check" /\ pc = "done") =>
        LET n == Len(results)
            E == { results[k].elapsed : k \in DOMAIN results }
        IN  /\ n = Len(dirs) /\ n > 0
            /\ report.total_passing =
                  Cardinality({ k \in DOMAIN results : results[k].returncode = 0 })
            /\ report.total_failing =
                  Cardinality({ k \in DOMAIN results : results[k].returncode # 0 })
            /\ report.total_passing + report.total_failing = n
            /\ \E m \in E : (\A e \in E : m <= e) /\ report.min = 100 * m
            /\ \E m \in E : (\A e \in E : m >= e) /\ report.max = 100 * m
            /\ 2 * Abs(n * report.avg - 100 * ElapsedTotal(n)) <= n
            /\ report.min <= report.avg /\ report.avg <= report.max

\* Elapsed times 1, 2 and 3 in some order give 1.00s, 3.00s and 2.00s.
C6_Witness ==
    /\ cmd = "check" /\ pc = "done"
    /\ Len(times) = 3
    /\ Range(times) = {1, 2, 3}
    /\ report.min = 100 /\ report.max = 300 /\ report.avg = 200
    /\ report.total_passing = 1 /\ report.total_failing = 2

\* C7: the tokens run hands to subprocess.run.  With output captured: for
\* git, token 0, the six colour tokens, then the caller's other tokens in
\* order; for pytest, the caller's tokens followed by --color=yes; for any
\* other program the caller's tokens.  With output not captured, the
\* caller's tokens.
C7_Normalization ==
    (cmd \in {"run", "hh_run"} /\ Resolved) =>
        LET n == Len(command) IN
        /\ (capture_output /\ command[1] = "git") =>
              /\ Len(argv) = n + 6
              /\ argv[1] = "git"
              /\ <<argv[2], argv[3], argv[4], argv[5], argv[6], argv[7]>> =
                    <<"-c", "color.ui=always", "-c", "color.diff=always",
                      "-c", "color.status=always">>
              /\ \A k \in 2..n : argv[k + 6] = command[k]
        /\ (capture_output /\ command = <<"git", "status">>) =>
              argv = <<"git", "-c", "color.ui=always", "-c",
                       "color.diff=always", "-c", "color.status=always",
                       "status">>
        /\ (capture_output /\ command[1] = "pytest") =>
              /\ Len(argv) = n + 1
              /\ \A k \in 1..n : argv[k] = command[k]
              /\ argv[n + 1] = "--color=yes"
        /\ (capture_output /\ command[1] \notin {"git", "pytest"}) =>
              argv = command
        /\ ~capture_output => argv = command

\* A git command of three tokens was normalised with output captured.
C7_Witness ==
    /\ cmd = "run" /\ Resolved /\ capture_output
    /\ Len(command) = 3
    /\ command[1] = "git" /\ command[2] = "status" /\ command[3] = "pytest"
    /\ Len(argv) = 9

\* C8: with a student name, the resolved list is the one path
\* {assignment}-{student}; without, it is exactly the children of the
\* working root whose names begin with the assignment name followed by "-".
C8_ResolveIsPrefixMatch ==
    Resolved =>
        IF student_name # NoStudent
        THEN dirs = << assignment_name \o <<"-">> \o student_name >>
        ELSE /\ Range(dirs) =
                  { c \in fs : IsPrefix(assignment_name \o <<"-">>, c) }
             /\ \A i, j \in DOMAIN dirs : i # j => dirs[i] # dirs[j]

\* C9: in gcr.py's run the prompt comes only with wait set and only right
\* after the panel of the same result, once per shown result and never for a
\* result left out; whenever run is in the prompt every child started has
\* exited, and no child is started after a prompt before that prompt has
\* been answered.  With wait unset there is no prompt.
C9_PromptBetweenIterations ==
    cmd = "run" =>
        /\ \A j \in DOMAIN events :
              events[j][1] = "prompt" =>
                  /\ wait
                  /\ j > 1 /\ events[j - 1] = <<"panel", events[j][2]>>
                  /\ events[j][2] \in DOMAIN results
                  /\ Included(results[events[j][2]].returncode)
        /\ \A k \in DOMAIN dirs : Times("prompt", k) <= 1
        /\ wait => \A k \in DOMAIN dirs :
                      Happened("panel", k) => Times("prompt", k) = 1
        /\ pc = "prompt" =>
              /\ \A k \in DOMAIN dirs : Happened("exec", k) => Happened("exit", k)
              /\ events[Len(events)] = <<"prompt", idx>>
        /\ \A i, j \in DOMAIN events :
              (i < j /\ events[i][1] = "prompt" /\ events[j][1] = "exec") =>
                  \E m \in (i + 1)..(j - 1) : events[m] = <<"ack", events[i][2]>>
        /\ ~wait => \A j \in DOMAIN events : events[j][1] # "prompt"

\* wait and errors_only: run is blocked in the prompt of a failing target,
\* after a passing target went by without one, with a target still to run.
C9_Witness ==
    /\ cmd = "run" /\ wait /\ errors_only /\ ~success_only
    /\ pc = "prompt"
    /\ idx = 2 /\ Len(dirs) = 3
    /\ results[1].returncode = 0 /\ ~Happened("prompt", 1)
    /\ results[2].returncode # 0
    /\ ~Happened("exec", 3)

\* C10: check prints the table and the statistics only once the command has
\* finished in every resolved target, and what it prints is one row per
\* target in the resolved order with that target's outcome, whatever the
\* progress bar showed.
C10_ReportAfterLastTarget ==
    cmd = "check" =>
        /\ report # NoReport =>
              /\ pc = "done"
              /\ Len(results) = Len(dirs)
              /\ \A k \in DOMAIN dirs : Happened("exec", k) /\ Happened("exit", k)
              /\ Len(report.table) = Len(dirs)
              /\ \A k \in DOMAIN dirs :
                    /\ report.table[k].student = dirs[k]
                    /\ report.table[k].mark = (results[k].returncode = 0)
                    /\ report.table[k].green = (results[k].returncode = 0)
                    /\ report.table[k].time = 100 * results[k].elapsed
        /\ pc = "done" => report # NoReport

\* Two of three targets have finished, the third is running, and nothing
\* has been printed.
C10_Witness ==
    /\ cmd = "check"
    /\ pc = "running"
    /\ Len(dirs) = 3 /\ idx = 3 /\ progress = 3
    /\ Len(table) = 2
    /\ report = NoReport

====
